---- MODULE Spec2Model ----
(***************************************************************************)
(* A state-machine model of kicker.pop.Population (src/kicker/pop.py): the *)
(* population driver that samples binaries, runs the stellar-evolution     *)
(* solver on the whole batch, quarantines binaries with NaN output, and    *)
(* fans the per-binary orbit integration out over a worker pool.           *)
(*                                                                         *)
(* Every public method is one action.  A method that calls another method  *)
(* (directly or through a lazy property) is modelled by composing the      *)
(* operators below on a record of the object's fields, so an action is     *)
(* the whole call, nested calls and raised exceptions included.            *)
(***************************************************************************)
EXTENDS Integers, Sequences, FiniteSets, TLC

VARIABLES
    processes,          \* self.processes
    n_binaries_match,   \* self.n_binaries_match
    pool,               \* self.pool: "None", "open" or "closed"
    orphans,            \* open pools that self.pool no longer refers to
    initial_binaries,   \* self._initial_binaries
    sampled,            \* self._mass_singles .. self._n_bin_req are set
    bpp,                \* self._bpp
    bcm,                \* self._bcm
    initC,              \* self._initC
    kick_info,          \* self._kick_info
    orbits,             \* self._orbits
    final_coords,       \* self._final_coords
    final_bpp,          \* self._final_bpp
    observables,        \* self._observables
    classes,            \* self._classes
    initial_galaxy,     \* self.initial_galaxy (no such attribute before sampling)
    nans_h5,            \* the side file nans.h5
    disk,               \* the files save writes: the container, the orbits, the potential
    op,                 \* the last public call
    exc,                \* the exception it raised, or "none"
    phases,             \* the phases it ran, in order
    order,              \* the order in which the workers completed its tasks
    tasks,              \* the argument tuples it handed to the integrator
    origin,             \* "constructed" (Population(...)) or "loaded" (load(...))
    settings,           \* self.final_kstar1, self.final_kstar2 and self.BSE_settings
    universe,           \* the binaries the sampler can draw in this run
    calls,              \* the number of steps made so far
    b_history,          \* one binary: its history rows, each with its kick row
    b_formed,           \* one binary: its initial state w0 is defined
    b_tau,              \* one binary: initial_galaxy.tau[i], its lookback time of birth
    b_dt,               \* self.timestep_size
    b_stage,            \* one binary: how far its orbit computation has come
    b_events,           \* one binary: events[i], as identify_events returned it
    b_args,             \* one binary: the arguments handed to the integrator
    b_orbit,            \* one binary: what the integrator returned
    r_subsnap,          \* rewind_to_formation: the particles handed to it
    r_processes,        \* rewind_to_formation: its processes argument
    r_stage,            \* rewind_to_formation: "idle", "args" or "returned"
    r_exc,              \* rewind_to_formation: the exception it raised, or "none"
    r_pool,             \* rewind_to_formation: the pool it created
    r_df                \* rewind_to_formation: the table it returned

vars == <<processes, n_binaries_match, pool, orphans, initial_binaries, sampled,
          bpp, bcm, initC, kick_info, orbits, final_coords, final_bpp,
          observables, classes, initial_galaxy, nans_h5, disk, op, exc, phases,
          order, tasks, origin, settings, universe, calls,
          b_history, b_formed, b_tau, b_dt, b_stage, b_events, b_args, b_orbit,
          r_subsnap, r_processes, r_stage, r_exc, r_pool, r_df>>

\* the variables of the orbit computation of one binary
orbit_vars == <<b_history, b_formed, b_tau, b_dt, b_stage, b_events, b_args, b_orbit>>

\* the variables of one call of rewind_to_formation
rewind_vars == <<r_subsnap, r_processes, r_stage, r_exc, r_pool, r_df>>

----------------------------------------------------------------------------
(* Bounds *)

\* largest table the sampler returns
MaxDraw == 2
\* steps followed on one population: public calls and finalisations
MaxCalls == 3
\* largest worker count a population is built with
MaxProcesses == 2

\* history rows of one binary
MaxRows == 2
\* largest lookback time of birth of a binary
MaxTau == 3
\* largest timestep_size
MaxDt == 2

\* default of the m1_cutoff parameter
M1Cutoff == 7
\* default of the max_ev_time parameter (Gyr)
MaxEvTime == 12

----------------------------------------------------------------------------
(* Optional values: None is the empty set, a value v is {v}. *)

None == {}
Some(v) == {v}
Val(o) == CHOOSE v \in o : TRUE

(* Sequence helpers *)

Idx(n) == [i \in 1..n |-> i]
Range(s) == {s[i] : i \in 1..Len(s)}
Perms(n) == {f \in [1..n -> 1..n] : \A i, j \in 1..n : f[i] = f[j] => i = j}
BinNums(t) == [i \in 1..Len(t) |-> t[i].bin_num]
\* table[table["bin_num"].isin(nums)] and table[~table["bin_num"].isin(nums)]
IsIn(t, nums) == SelectSeq(t, LAMBDA r : r.bin_num \in nums)
NotIn(t, nums) == SelectSeq(t, LAMBDA r : r.bin_num \notin nums)
\* arr[mask] for a boolean mask of the same length
Gather(arr, keep) == [j \in 1..Len(keep) |-> arr[keep[j]]]
MaskSelect(arr, mask) == Gather(arr, SelectSeq(Idx(Len(arr)), LAMBDA k : mask[k]))

----------------------------------------------------------------------------
(* Python values that save converts: a value is its type and its content.  *)

PyInt(v) == [kind |-> "int", v |-> v]
PyList(v) == [kind |-> "list", v |-> v]
\* np.array(x) of a list or an array
NdArray(v) == [kind |-> "ndarray", v |-> v]
\* Python's == on numbers, element by element on sequences
SameValue(x, y) == x.v = y.v

\* the default of final_kstar1 and final_kstar2, list(range(14)), and a list of
\* the compact-object types alone
KstarDefault == PyList([i \in 1..14 |-> i - 1])
KstarCompact == PyList([i \in 1..2 |-> 12 + i])
\* the settings block (of its 60 keys: two flags, one array)
BSEDefaults == [bhflag |-> PyInt(1), windflag |-> PyInt(3),
                qcrit_array |-> PyList([i \in 1..16 |-> 0])]
\* what __init__ can leave in these fields
Settings == {[final_kstar1 |-> k, final_kstar2 |-> KstarDefault, BSE_settings |-> BSEDefaults]
                : k \in {KstarDefault, KstarCompact}}

----------------------------------------------------------------------------
(* The binaries the sampler can draw.  Each candidate stands for one way   *)
(* the external solver and integrator respond to a binary; the responses   *)
(* are fixed per binary, as the solver and the integrator are              *)
(* deterministic.                                                          *)
(*   bppnan     NaN separation in its final evolution-history row          *)
(*   both       NaN in its final history row and in one kick row           *)
(*   kick2      NaN in both of its kick rows                               *)
(*   fails      evolves cleanly, its orbit integration fails               *)
(*   bound      evolves cleanly, stays bound                               *)
(*   disrupted  evolves cleanly, is disrupted (a pair of trajectories)     *)
(*   missing    evolves cleanly, the integrator returns None               *)
(*   light      primary mass below the cutoff                              *)
(***************************************************************************)
Natures == <<"bppnan", "both", "kick2", "fails", "bound", "disrupted", "missing", "light">>
Bin == 1..Len(Natures)
NatureOf(b) == Natures[b]
MassOf(b) == IF NatureOf(b) = "light" THEN M1Cutoff - 1 ELSE M1Cutoff

\* the sets of candidates a run can be about: MaxDraw candidates, a clean bound
\* binary among them
Clean == CHOOSE b \in Bin : NatureOf(b) = "bound"
Universes == {u \in SUBSET Bin : Cardinality(u) = MaxDraw /\ Clean \in u}

\* what InitialBinaryTable.sampler can return: a non-empty table, rows in index order
Ascending(s) == SelectSeq(Idx(Len(Natures)), LAMBDA b : b \in s)
SampledRows(ids) == [i \in 1..Len(ids) |-> [bin_num |-> ids[i], mass_1 |-> MassOf(ids[i])]]
Draws == {SampledRows(Ascending(s)) : s \in (SUBSET universe) \ {{}}}

----------------------------------------------------------------------------
(* The object as a record of its fields *)

Self == [processes |-> processes, n_binaries_match |-> n_binaries_match,
         pool |-> pool, orphans |-> orphans,
         initial_binaries |-> initial_binaries, sampled |-> sampled,
         bpp |-> bpp, bcm |-> bcm, initC |-> initC, kick_info |-> kick_info,
         orbits |-> orbits, final_coords |-> final_coords,
         final_bpp |-> final_bpp, observables |-> observables,
         classes |-> classes,
         initial_galaxy |-> initial_galaxy, nans_h5 |-> nans_h5, disk |-> disk,
         op |-> op, exc |-> exc, phases |-> phases, order |-> order,
         tasks |-> tasks, origin |-> origin, settings |-> settings]

Store(S) ==
    /\ processes' = S.processes
    /\ n_binaries_match' = S.n_binaries_match
    /\ pool' = S.pool
    /\ orphans' = S.orphans
    /\ initial_binaries' = S.initial_binaries
    /\ sampled' = S.sampled
    /\ bpp' = S.bpp
    /\ bcm' = S.bcm
    /\ initC' = S.initC
    /\ kick_info' = S.kick_info
    /\ orbits' = S.orbits
    /\ final_coords' = S.final_coords
    /\ final_bpp' = S.final_bpp
    /\ observables' = S.observables
    /\ classes' = S.classes
    /\ initial_galaxy' = S.initial_galaxy
    /\ nans_h5' = S.nans_h5
    /\ disk' = S.disk
    /\ op' = S.op
    /\ exc' = S.exc
    /\ phases' = S.phases
    /\ order' = S.order
    /\ tasks' = S.tasks
    /\ origin' = S.origin
    /\ settings' = S.settings
    /\ universe' = universe
    /\ calls < MaxCalls
    /\ calls' = calls + 1
    /\ UNCHANGED orbit_vars
    /\ UNCHANGED rewind_vars

\* a public call starts: the record of the last call is reset
Begin(name) ==
    [Self EXCEPT !.op = name, !.exc = "none", !.phases = <<>>, !.order = <<>>, !.tasks = <<>>]
Raise(S, e) == [S EXCEPT !.exc = e]
Ok(S) == S.exc = "none"

----------------------------------------------------------------------------
(* sample_initial_binaries *)

\* a sampling that keeps every binary the sampler returned
MassCutKeepsAll(draw) == draw

\* the mass cutoff: initial_binaries[initial_binaries["mass_1"] >= m1_cutoff]
MassCut(draw) == SelectSeq(draw, LAMBDA r : r.mass_1 >= M1Cutoff)

\* galaxy_model(size=n): one entry per binary in every per-binary array (tau, Z,
\* rho, phi, z, x, y, v_R, v_T, v_z, which_comp).  Entry i is drawn for the
\* binary at position i, and is named after it.
GalaxyModel(ib) == [arr |-> BinNums(ib), size |-> Len(ib)]

SampleStore(S, ib) ==
    [S EXCEPT !.initial_binaries = Some(ib),
              !.sampled = TRUE,
              !.n_binaries_match = Len(ib),
              !.initial_galaxy = Some(GalaxyModel(ib)),
              !.phases = Append(@, "sample")]

SampleOp(S, draw) == SampleStore(S, MassCut(draw))

----------------------------------------------------------------------------
(* Evolve.evolve: the external solver, one call for the whole table.  Two   *)
(* history rows and two kick rows (one per star) per binary, in table order *)

BppRow(b, k) ==
    [bin_num |-> b,
     sep |-> IF k % 2 = 0 /\ NatureOf(b) \in {"bppnan", "both"} THEN "nan" ELSE "fin"]
EvolveBpp(ib) == [k \in 1..(2 * Len(ib)) |-> BppRow(ib[(k + 1) \div 2].bin_num, k)]

KickRow(b, star) ==
    [bin_num |-> b, star |-> star,
     delta_vsysx_1 |-> IF NatureOf(b) = "kick2" \/ (NatureOf(b) = "both" /\ star = 1)
                       THEN "nan" ELSE "fin"]
EvolveKickInfo(ib) ==
    [k \in 1..(2 * Len(ib)) |-> KickRow(ib[(k + 1) \div 2].bin_num, IF k % 2 = 1 THEN 1 ELSE 2)]

EvolveBcm(ib) == [k \in 1..Len(ib) |-> [bin_num |-> ib[k].bin_num]]

----------------------------------------------------------------------------
(* perform_stellar_evolution *)

\* bpp[~bpp.index.duplicated(keep="last")]: the last row of every binary
FinalRows(t) ==
    Gather(t, SelectSeq(Idx(Len(t)),
                        LAMBDA k : \A j \in (k + 1)..Len(t) : t[j].bin_num # t[k].bin_num))

\* np.concatenate((final_bpp[nans]["bin_num"], kick_info[kick_info_nans]["bin_num"]))
NanBinNums(t_bpp, t_kick) ==
    BinNums(SelectSeq(FinalRows(t_bpp), LAMBDA r : r.sep = "nan"))
        \o BinNums(SelectSeq(t_kick, LAMBDA r : r.delta_vsysx_1 = "nan"))

\* n_nan = len(nan_bin_nums)
NNan(nan_bin_nums) == Len(nan_bin_nums)

\* not_nan = ~final_bpp["bin_num"].isin(nan_bin_nums)
NotNan(final, nums) == [k \in 1..Len(final) |-> final[k].bin_num \notin nums]

\* lines 338-350: the side file, the count and the four tables
QuarantineTables(S, nums, n_nan) ==
    [S EXCEPT !.nans_h5 = Some([bpp |-> IsIn(Val(S.bpp), nums),
                                initC |-> IsIn(Val(S.initC), nums),
                                kick_info |-> IsIn(Val(S.kick_info), nums)]),
              !.n_binaries_match = @ - n_nan,
              !.bpp = Some(NotIn(Val(S.bpp), nums)),
              !.bcm = Some(NotIn(Val(S.bcm), nums)),
              !.kick_info = Some(NotIn(Val(S.kick_info), nums)),
              !.initC = Some(NotIn(Val(S.initC), nums))]

\* lines 352-364: the arrays of the initial galaxy, indexed by a boolean mask
\* (a mask of another length is an IndexError)
QuarantineGalaxy(S, not_nan, n_nan) ==
    IF S.initial_galaxy = None THEN Raise(S, "AttributeError")
    ELSE IF Len(not_nan) # Len(Val(S.initial_galaxy).arr) THEN Raise(S, "IndexError")
    ELSE [S EXCEPT !.initial_galaxy =
             Some([arr |-> MaskSelect(Val(S.initial_galaxy).arr, not_nan),
                   size |-> Val(S.initial_galaxy).size - n_nan])]

\* the body of "if nans.any() or kick_info_nans.any()"
QuarantineNums(S, final, nan_bin_nums) ==
    IF Len(nan_bin_nums) = 0 THEN S
    ELSE QuarantineGalaxy(QuarantineTables(S, Range(nan_bin_nums), NNan(nan_bin_nums)),
                          NotNan(final, Range(nan_bin_nums)), NNan(nan_bin_nums))

Quarantine(S) ==
    QuarantineNums(S, FinalRows(Val(S.bpp)), NanBinNums(Val(S.bpp), Val(S.kick_info)))

\* the pool a phase holds once its own pool is closed and joined
ReleasedPool == "closed"

\* lines 317-323: the solver's four tables are stored, the phase's own pool closed
EvolveStore(S, ib, no_pool_existed) ==
    [S EXCEPT !.bpp = Some(EvolveBpp(ib)), !.bcm = Some(EvolveBcm(ib)),
              !.initC = Some(ib), !.kick_info = Some(EvolveKickInfo(ib)),
              !.pool = IF no_pool_existed THEN ReleasedPool ELSE @]

\* the solver is handed self.pool; a closed pool refuses work (ValueError)
StellarEvolve(S, no_pool_existed, solver_raises) ==
    IF S.pool = "closed" THEN Raise(S, "ValueError")
    ELSE IF solver_raises THEN Raise(S, "SolverError")
    ELSE Quarantine(EvolveStore(S, Val(S.initial_binaries), no_pool_existed))

\* lines 313-315: "no_pool_existed = self.pool is None and self.processes > 1"
StellarPool(S, no_pool_existed, solver_raises) ==
    StellarEvolve([S EXCEPT !.pool = IF no_pool_existed THEN "open" ELSE @,
                            !.phases = Append(@, "evolve")],
                  no_pool_existed, solver_raises)

StellarRun(S, solver_raises) ==
    StellarPool(S, S.pool = "None" /\ S.processes > 1, solver_raises)

\* a phase that samples afresh on every call, whatever the population holds
StellarInputResamples(S, draw) == SampleOp(S, IF draw = <<>> THEN SampledRows(<<Clean>>) ELSE draw)

\* lines 307-311: sample when nothing is there, reuse initC when only it is
StellarInput(S, draw) ==
    IF S.initial_binaries = None /\ S.initC = None THEN SampleOp(S, draw)
    ELSE IF S.initial_binaries = None THEN [S EXCEPT !.initial_binaries = S.initC]
    ELSE S

\* lines 304-305: "delete any cached variables"
StellarCaches(S) == [S EXCEPT !.final_bpp = None, !.observables = None]

StellarOp(S, draw, solver_raises) ==
    StellarRun(StellarInput(StellarCaches(S), draw), solver_raises)

----------------------------------------------------------------------------
(* perform_galactic_evolution *)

\* identify_events(full_bpp, full_kick_info): one entry per binary of the history
\* table, in table order; the caller indexes it by position.  The events of a
\* binary are named after the binary.
IdentifyEvents(t_bpp, t_kick) == BinNums(FinalRows(t_bpp))

\* integrate_orbit_with_events(w0, potential, events, t1, t2, dt).  The
\* potential, t2 = max_ev_time and dt are the same for every task; t1 is
\* max_ev_time - tau[i] and is named after the galaxy entry tau comes from.
NoOrbit == [kind |-> "None", w0 |-> 0, events |-> 0, t1 |-> 0]
IntegrateRaises(a) == NatureOf(a.events) = "fails"
Integrate(a) ==
    IF NatureOf(a.events) = "missing" THEN NoOrbit
    ELSE [kind |-> IF NatureOf(a.events) = "disrupted" THEN "disrupted" ELSE "bound",
          w0 |-> a.w0, events |-> a.events, t1 |-> a.t1]

\* the argument tuple built for index i (1-based here, 0-based in the code)
TaskArgs(w0s, events, tau, i) == [w0 |-> w0s[i], events |-> events[i], t1 |-> tau[i]]

\* the tuples for the leading indices of range(n_binaries_match) that all three
\* sequences hold; the first index beyond one of them is an IndexError
Least(S) == CHOOSE x \in S : \A y \in S : x <= y
NInRange(w0s, events, tau, K) == Least({IF K > 0 THEN K ELSE 0, Len(w0s), Len(events), Len(tau)})
Args(w0s, events, tau, n) == [i \in 1..n |-> TaskArgs(w0s, events, tau, i)]

\* the order in which n tasks complete, read off an order of all possible tasks
CompletionOrder(ord, n) == SelectSeq(ord, LAMBDA x : x <= n)

\* pool.starmap(f, args): the workers complete the tasks in the order ord; the
\* result list holds each task's result at the task's own index
Completed(args, ord) ==
    [j \in 1..Len(args) |-> [index |-> ord[j], value |-> Integrate(args[ord[j]])]]
ByIndex(completed) ==
    [i \in 1..Len(completed) |-> (CHOOSE c \in Range(completed) : c.index = i).value]
StarMap(args, ord) == ByIndex(Completed(args, ord))

\* the for loop of the sequential branch
LoopIntegrate(args) == [i \in 1..Len(args) |-> Integrate(args[i])]
FirstRaising(args) ==
    CHOOSE i \in 1..Len(args) : IntegrateRaises(args[i])
                                /\ \A j \in 1..(i - 1) : ~IntegrateRaises(args[j])

\* "if self.pool is not None or self.processes > 1"
UsesPool(S) == S.pool # "None" \/ S.processes > 1

\* lines 395-410 and 420: the pool branch.  starmap raises a task's exception
\* once every task has completed; nothing closes the pool then.
GalacticPool(P, args, K, pool_existed, ord) ==
    IF Len(args) < K THEN Raise(P, "IndexError")
    ELSE IF P.pool = "closed" THEN Raise(P, "ValueError")
    ELSE IF \E i \in 1..Len(args) : IntegrateRaises(args[i])
         THEN Raise([P EXCEPT !.phases = Append(@, "integrate"), !.order = ord,
                              !.tasks = args],
                    "IntegrationDivergedError")
    ELSE [P EXCEPT !.phases = Append(@, "integrate"), !.order = ord, !.tasks = args,
                   !.orbits = Some(StarMap(args, ord)),
                   !.pool = IF pool_existed THEN @ ELSE ReleasedPool]

\* lines 412-420: the sequential branch
GalacticLoop(F, args, K) ==
    IF \E i \in 1..Len(args) : IntegrateRaises(args[i])
    THEN Raise([F EXCEPT !.phases = Append(@, "integrate"), !.order = Idx(FirstRaising(args)),
                         !.tasks = SubSeq(args, 1, FirstRaising(args))],
               "IntegrationDivergedError")
    ELSE IF Len(args) < K
         THEN Raise([F EXCEPT !.phases = Append(@, "integrate"), !.order = Idx(Len(args)),
                              !.tasks = args],
                    "IndexError")
    ELSE [F EXCEPT !.phases = Append(@, "integrate"), !.order = Idx(Len(args)), !.tasks = args,
                   !.orbits = Some(LoopIntegrate(args))]

GalacticBranch(F, args, ord) ==
    IF UsesPool(F)
    THEN GalacticPool([F EXCEPT !.pool = IF @ = "None" THEN "open" ELSE @], args,
                      F.n_binaries_match, F.pool # "None", CompletionOrder(ord, Len(args)))
    ELSE GalacticLoop(F, args, F.n_binaries_match)

\* lines 392-420, with w0s as computed on line 387 (before self.bpp was read)
GalacticTasks(F, w0s, events, tau, ord) ==
    GalacticBranch(F, Args(w0s, events, tau, NInRange(w0s, events, tau, F.n_binaries_match)), ord)

GalacticBack(F, w0s, ord) ==
    IF ~Ok(F) THEN F
    ELSE GalacticTasks(F, w0s, IdentifyEvents(Val(F.bpp), Val(F.kick_info)),
                       Val(F.initial_galaxy).arr, ord)

\* lines 375-390: the initial state is read from the galaxy, then reading
\* self.bpp and self.kick_info runs the stellar evolution when it is missing
GalacticLazy(S, draw, solver_raises) ==
    IF S.initial_galaxy = None THEN Raise(S, "AttributeError")
    ELSE IF S.bpp = None \/ S.kick_info = None THEN StellarOp(S, draw, solver_raises)
    ELSE S

\* lines 371-372: "delete any cached variables"
GalacticCaches(S) == [S EXCEPT !.final_coords = None, !.observables = None]

\* w0s: one initial phase-space position per entry of the galaxy arrays
W0s(S) == IF S.initial_galaxy = None THEN <<>> ELSE Val(S.initial_galaxy).arr

GalacticOp(S, draw, solver_raises, ord) ==
    GalacticBack(GalacticLazy(GalacticCaches(S), draw, solver_raises), W0s(S), ord)

----------------------------------------------------------------------------
(* The lazy properties and the derived tables *)

\* the bpp, bcm, initC and kick_info properties
TableField(S, name) ==
    CASE name = "bpp" -> S.bpp
      [] name = "bcm" -> S.bcm
      [] name = "initC" -> S.initC
      [] OTHER -> S.kick_info
TableProp(S, name, draw, solver_raises) ==
    IF TableField(S, name) = None THEN StellarOp(S, draw, solver_raises) ELSE S

\* the orbits property
OrbitsProp(S, draw, solver_raises, ord) ==
    IF S.orbits = None THEN GalacticOp(S, draw, solver_raises, ord) ELSE S

\* np.array(orbits, dtype="object"): a list in which every entry is a pair
\* (every binary disrupted) makes a two-dimensional array of shape (K, 2), whose
\* rows are arrays; any other list makes a one-dimensional array of its entries
TwoDimensional(t_orbits) ==
    Len(t_orbits) > 0 /\ \A i \in 1..Len(t_orbits) : t_orbits[i].kind = "disrupted"

\* get_final_coords: np.inf in all six coordinates of both records, then the
\* last sample of each trajectory (position into 1..3, velocity into 4..6)
Inf == [inf |-> TRUE, w0 |-> 0, events |-> 0, t1 |-> 0, comp |-> 0, axis |-> 0]
InfRecord == [k \in 1..6 |-> Inf]
LastSample(o, c) ==
    [k \in 1..6 |-> [inf |-> FALSE, w0 |-> o.w0, events |-> o.events, t1 |-> o.t1,
                     comp |-> c, axis |-> k]]
\* a buffer in which a missing orbit is read like a trajectory
FinalKinematicsNoSentinel(o) ==
    IF o.kind = "disrupted" THEN <<LastSample(o, 1), LastSample(o, 2)>>
    ELSE <<LastSample(o, 0), InfRecord>>
FinalKinematics(o) ==
    IF o.kind = "None" THEN <<InfRecord, InfRecord>>
    ELSE IF o.kind = "disrupted" THEN <<LastSample(o, 1), LastSample(o, 2)>>
    ELSE <<LastSample(o, 0), InfRecord>>
GetFinalCoords(t_orbits) ==
    <<[i \in 1..Len(t_orbits) |-> FinalKinematics(t_orbits[i])[1]],
      [i \in 1..Len(t_orbits) |-> FinalKinematics(t_orbits[i])[2]]>>

\* a row of a two-dimensional array is no list: it takes the last branch, where
\* orbit[-1] is a whole trajectory and its (3, T) positions do not fit the three
\* coordinates of the record (ValueError; trajectories hold T > 1 samples)
GetFinalCoordsRaises(t_orbits) == TwoDimensional(t_orbits)

\* lines 422-460: get_final_coords reads self.orbits
\* and returns the two records; it stores nothing itself
GetFinalCoordsReturn(S) ==
    IF ~Ok(S) THEN S
    ELSE IF GetFinalCoordsRaises(Val(S.orbits)) THEN Raise(S, "ValueError")
    ELSE S
GetFinalCoordsOp(S, draw, solver_raises, ord) ==
    GetFinalCoordsReturn(OrbitsProp(S, draw, solver_raises, ord))

\* the final_coords property
FinalCoordsStore(S) ==
    IF ~Ok(S) THEN S
    ELSE IF GetFinalCoordsRaises(Val(S.orbits)) THEN Raise(S, "ValueError")
    ELSE [S EXCEPT !.final_coords = Some(GetFinalCoords(Val(S.orbits)))]
FinalCoordsProp(S, draw, solver_raises, ord) ==
    IF S.final_coords # None THEN S
    ELSE FinalCoordsStore(OrbitsProp(S, draw, solver_raises, ord))

\* the final_bpp property: the last row of each binary, then the metallicity
\* column of initC inserted (a column of another length is a ValueError)
DropDuplicates(t) == [i \in 1..Len(t) |-> [bin_num |-> t[i].bin_num, metallicity |-> 0]]
InsertMetallicity(t, t_initC) ==
    [i \in 1..Len(t) |-> [bin_num |-> t[i].bin_num, metallicity |-> t_initC[i].bin_num]]
FinalBppInsert(S) ==
    IF ~Ok(S) THEN S
    ELSE IF Len(Val(S.initC)) # Len(Val(S.final_bpp)) THEN Raise(S, "ValueError")
    ELSE [S EXCEPT !.final_bpp = Some(InsertMetallicity(Val(S.final_bpp), Val(S.initC)))]
FinalBppDrop(S, draw, solver_raises) ==
    IF ~Ok(S) THEN S
    ELSE FinalBppInsert(TableProp(
            [S EXCEPT !.final_bpp = Some(DropDuplicates(FinalRows(Val(S.bpp))))],
            "initC", draw, solver_raises))
FinalBppProp(S, draw, solver_raises) ==
    IF S.final_bpp # None THEN S
    ELSE FinalBppDrop(TableProp(S, "bpp", draw, solver_raises), draw, solver_raises)

\* get_phot(final_bpp, final_coords, filters): a pure function of its arguments
GetPhot(t_final_bpp, t_final_coords) == [final_bpp |-> t_final_bpp, final_coords |-> t_final_coords]

\* the observables property: get_observables reads final_bpp, then final_coords
ObservablesStore(S) ==
    IF Ok(S) THEN [S EXCEPT !.observables = Some(GetPhot(Val(S.final_bpp), Val(S.final_coords)))]
    ELSE S
ObservablesCoords(S, draw, solver_raises, ord) ==
    IF Ok(S) THEN FinalCoordsProp(S, draw, solver_raises, ord) ELSE S
\* lines 462-477: get_observables evaluates self.final_bpp and
\* self.final_coords, which caches both, and returns what get_phot makes of
\* them; it stores nothing itself
GetObservablesOp(S, draw, solver_raises, ord) ==
    ObservablesCoords(FinalBppProp(S, draw, solver_raises), draw, solver_raises, ord)
ObservablesProp(S, draw, solver_raises, ord) ==
    IF S.observables # None THEN S
    ELSE ObservablesStore(GetObservablesOp(S, draw, solver_raises, ord))

\* determine_final_classes(population=self) of kicker.classify: the classes of
\* the binaries, taken to be made from the history and the orbits of the
\* population it is given, which it reads through the properties
DetermineFinalClasses(t_bpp, t_orbits) == [bpp |-> t_bpp, orbits |-> t_orbits]

\* lines 192-196, the classes property: the value is computed once and kept
ClassesStore(S) ==
    IF Ok(S) THEN [S EXCEPT !.classes = Some(DetermineFinalClasses(Val(S.bpp), Val(S.orbits)))]
    ELSE S
ClassesOrbits(S, draw, solver_raises, ord) ==
    IF Ok(S) THEN OrbitsProp(S, draw, solver_raises, ord) ELSE S
ClassesProp(S, draw, solver_raises, ord) ==
    IF S.classes # None THEN S
    ELSE ClassesStore(ClassesOrbits(TableProp(S, "bpp", draw, solver_raises),
                                    draw, solver_raises, ord))

\* the mass_singles, mass_binaries, n_singles_req and n_bin_req properties
TotalsProp(S, draw) == IF ~S.sampled THEN SampleOp(S, draw) ELSE S

----------------------------------------------------------------------------
(* create_population *)

\* lines 249-252: close, join and forget the pool
ClosePool(S) == IF Ok(S) /\ S.pool # "None" THEN [S EXCEPT !.pool = "None"] ELSE S

\* line 239: "self.pool = Pool(self.processes) if self.processes else None".
\* The right-hand side is evaluated first, so a pool the attribute still
\* referred to is open while the new one is created.  Rebinding the attribute
\* then drops a reference to it: where that was the last one the interpreter
\* finalises the pool and terminates its workers; where something else still
\* refers to it (kept: the traceback of the call that failed holds the frame
\* that was using the pool) it stays open, unreferenced by the population
CreatePool(S, kept) ==
    [S EXCEPT !.pool = IF S.processes # 0 THEN "open" ELSE "None",
              !.orphans = IF S.pool = "open" /\ kept THEN @ + 1 ELSE @]

CreateGalactic(S, draw, solver_raises, ord) ==
    IF Ok(S) THEN GalacticOp(S, draw, solver_raises, ord) ELSE S

CreateOp(S, draw, solver_raises, ord, kept) ==
    ClosePool(CreateGalactic(StellarOp(CreatePool(SampleOp(S, draw), kept),
                                       draw, solver_raises),
                             draw, solver_raises, ord))

----------------------------------------------------------------------------
(* save and load.  file_name.h5 is the container, -orbits.npy the orbits,  *)
(* -potential.txt the potential.                                           *)

NoFiles == [h5 |-> None, npy |-> None, txt |-> FALSE]

\* the scalar block: numeric_params (n_binaries_match and processes are the
\* entries that vary here; int() undoes the float array's conversion)
NumericParams(S) == [n_binaries_match |-> S.n_binaries_match, processes |-> S.processes]

\* lines 518-523: the scalar block; reading mass_singles samples when the totals
\* are missing, after n_binaries_match was put into the array
SaveNumeric(S, draw) ==
    IF ~Ok(S) THEN S
    ELSE [TotalsProp(S, draw) EXCEPT
            !.disk.h5 = Some([Val(S.disk.h5) EXCEPT !.params = Some(NumericParams(S))])]

\* line 525: np.array([self.final_kstar1, self.final_kstar2]) is a 2-row integer
\* array when the two have one length; for two lengths numpy raises ValueError
\* (inhomogeneous shape; before numpy 1.24 it built an array of two list
\* objects, which create_dataset on line 526 refuses with TypeError)
KStarsRaises(k1, k2) == Len(k1.v) # Len(k2.v)
KStars(k1, k2) == NdArray(<<k1.v, k2.v>>)
SaveKStars(S) ==
    IF ~Ok(S) THEN S
    ELSE IF KStarsRaises(S.settings.final_kstar1, S.settings.final_kstar2)
    THEN Raise(S, "ValueError")
    ELSE [S EXCEPT !.disk.h5 = Some([Val(S.disk.h5) EXCEPT !.k_stars =
                Some(KStars(S.settings.final_kstar1, S.settings.final_kstar2))])]

\* lines 529-531: one attribute per setting; h5py stores a number as a numpy
\* scalar and a list as an array
AttrWrite(x) == IF x.kind \in {"list", "ndarray"} THEN NdArray(x.v)
                ELSE [kind |-> "int64", v |-> x.v]
SaveBSE(S) ==
    IF ~Ok(S) THEN S
    ELSE [S EXCEPT !.disk.h5 = Some([Val(S.disk.h5) EXCEPT !.bse =
                Some([k \in DOMAIN S.settings.BSE_settings |->
                        AttrWrite(S.settings.BSE_settings[k])])])]

\* lines 517-531: the blocks appended to the container
SaveParams(S, draw) == SaveBSE(SaveKStars(SaveNumeric(S, draw)))

\* line 515: np.save of the orbits (read through the lazy property)
SaveNpy(S) == IF ~Ok(S) THEN S ELSE [S EXCEPT !.disk.npy = S.orbits]
SaveOrbits(S, draw, solver_raises, ord) ==
    IF ~Ok(S) THEN S ELSE SaveNpy(OrbitsProp(S, draw, solver_raises, ord))

\* lines 513-514: the potential file and the galaxy's key of the container
SaveGalaxy(S) ==
    IF ~Ok(S) THEN S
    ELSE IF S.initial_galaxy = None THEN Raise([S EXCEPT !.disk.txt = TRUE], "AttributeError")
    ELSE [S EXCEPT !.disk.txt = TRUE,
                   !.disk.h5 = Some([Val(S.disk.h5) EXCEPT !.galaxy = S.initial_galaxy])]

\* lines 508-511: the four tables (read through the lazy properties)
SaveTables(S) ==
    IF ~Ok(S) THEN S
    ELSE [S EXCEPT !.disk.h5 =
             Some([tables |-> Some([bpp |-> Val(S.bpp), bcm |-> Val(S.bcm),
                                    initC |-> Val(S.initC), kick_info |-> Val(S.kick_info)]),
                   galaxy |-> None, params |-> None, k_stars |-> None, bse |-> None])]

\* a save that removes the existing container before it looks at overwrite
SaveOpRemovesFirst(S, overwrite, draw, solver_raises, ord) ==
    IF S.disk.h5 # None /\ ~overwrite
    THEN Raise([S EXCEPT !.disk.h5 = None], "FileExistsError")
    ELSE SaveParams(
            SaveOrbits(
                SaveGalaxy(SaveTables(TableProp([S EXCEPT !.disk.h5 = None], "bpp",
                                                draw, solver_raises))),
                draw, solver_raises, ord),
            draw)

\* lines 502-507: an existing container is removed or refused
SaveOp(S, overwrite, draw, solver_raises, ord) ==
    IF S.disk.h5 # None /\ ~overwrite THEN Raise(S, "FileExistsError")
    ELSE SaveParams(
            SaveOrbits(
                SaveGalaxy(SaveTables(TableProp([S EXCEPT !.disk.h5 = None], "bpp",
                                                draw, solver_raises))),
                draw, solver_raises, ord),
            draw)

\* a load that does not read the trajectory array
LoadedWithoutOrbits(S, h5) ==
    [S EXCEPT !.processes = Val(h5.params).processes,
              !.n_binaries_match = Val(h5.params).n_binaries_match,
              !.pool = "None", !.orphans = 0, !.origin = "loaded",
              !.initial_binaries = None, !.sampled = TRUE,
              !.bpp = Some(Val(h5.tables).bpp), !.bcm = Some(Val(h5.tables).bcm),
              !.initC = Some(Val(h5.tables).initC),
              !.kick_info = Some(Val(h5.tables).kick_info),
              !.orbits = None,
              !.final_coords = None, !.final_bpp = None, !.observables = None,
              !.classes = None,
              !.initial_galaxy = h5.galaxy,
              !.settings = [final_kstar1 |-> NdArray(Val(h5.k_stars).v[1]),
                            final_kstar2 |-> NdArray(Val(h5.k_stars).v[2]),
                            BSE_settings |-> Val(h5.bse)]]

\* load: Population(...) built from the scalar block, then the stored fields
Loaded(S, h5) ==
    [S EXCEPT !.processes = Val(h5.params).processes,
              !.n_binaries_match = Val(h5.params).n_binaries_match,
              !.pool = "None", !.orphans = 0, !.origin = "loaded",
              !.initial_binaries = None, !.sampled = TRUE,
              !.bpp = Some(Val(h5.tables).bpp), !.bcm = Some(Val(h5.tables).bcm),
              !.initC = Some(Val(h5.tables).initC),
              !.kick_info = Some(Val(h5.tables).kick_info),
              !.orbits = S.disk.npy,
              !.final_coords = None, !.final_bpp = None, !.observables = None,
              !.classes = None,
              !.initial_galaxy = h5.galaxy,
              !.settings = [final_kstar1 |-> NdArray(Val(h5.k_stars).v[1]),
                            final_kstar2 |-> NdArray(Val(h5.k_stars).v[2]),
                            BSE_settings |-> Val(h5.bse)]]

LoadFile(S, h5) ==
    IF h5.params = None \/ h5.k_stars = None \/ h5.bse = None THEN Raise(S, "KeyError")
    ELSE IF ~S.disk.txt THEN Raise(S, "FileNotFoundError")
    ELSE IF S.disk.npy = None THEN Raise(S, "FileNotFoundError")
    ELSE Loaded(S, h5)

LoadOp(S) ==
    IF S.disk.h5 = None THEN Raise(S, "FileNotFoundError") ELSE LoadFile(S, Val(S.disk.h5))

----------------------------------------------------------------------------
(* The state machine *)

\* the n_binaries argument of the constructor
n_binaries == MaxDraw

\* Population.__init__
PopInit ==
    /\ processes \in 0..MaxProcesses
    /\ n_binaries_match = n_binaries
    /\ pool = "None"
    /\ orphans = 0
    /\ initial_binaries = None
    /\ sampled = FALSE
    /\ bpp = None
    /\ bcm = None
    /\ initC = None
    /\ kick_info = None
    /\ orbits = None
    /\ final_coords = None
    /\ final_bpp = None
    /\ observables = None
    /\ classes = None
    /\ initial_galaxy = None
    /\ nans_h5 = None
    /\ disk = NoFiles
    /\ op = "__init__"
    /\ exc = "none"
    /\ phases = <<>>
    /\ order = <<>>
    /\ tasks = <<>>
    /\ origin = "constructed"
    /\ settings \in Settings
    /\ universe \in Universes
    /\ calls = 0

\* no orbit computation of a single binary is followed
OrbitIdle ==
    /\ b_history = <<>>
    /\ b_formed = TRUE
    /\ b_tau = 1
    /\ b_dt = 1
    /\ b_stage = "idle"
    /\ b_events = None
    /\ b_args = None
    /\ b_orbit = None

\* no call of rewind_to_formation is followed
RewindIdle ==
    /\ r_subsnap = <<>>
    /\ r_processes = 1
    /\ r_stage = "idle"
    /\ r_exc = "none"
    /\ r_pool = "None"
    /\ r_df = None

Init == PopInit /\ OrbitIdle /\ RewindIdle

(* The inputs a call can meet: the table the sampler draws (when the call   *)
(* samples), whether the solver raises (when the call invokes it), and the  *)
(* order in which the workers complete (when the call integrates on a pool).*)
DrawsFor(S) == IF S.initial_binaries = None /\ S.initC = None THEN Draws ELSE {<<>>}
SolverFor(S) == IF S.bpp = None THEN BOOLEAN ELSE {FALSE}
OrdersFor(S) == IF UsesPool(S) THEN Perms(MaxDraw) ELSE {Idx(MaxDraw)}

SampleInitialBinaries ==
    \E draw \in Draws :
        Store(SampleOp(Begin("sample_initial_binaries"), draw))

PerformStellarEvolution ==
    \E draw \in DrawsFor(Self), solver_raises \in BOOLEAN :
        Store(StellarOp(Begin("perform_stellar_evolution"), draw, solver_raises))

PerformGalacticEvolution ==
    \E draw \in DrawsFor(Self), solver_raises \in SolverFor(Self), ord \in OrdersFor(Self) :
        Store(GalacticOp(Begin("perform_galactic_evolution"), draw, solver_raises, ord))

\* whether a pool that line 239 drops is still referred to from elsewhere (a
\* run of MaxCalls calls leaves fewer than MaxCalls pools open that way)
Kept == IF pool = "open" THEN BOOLEAN ELSE {FALSE}

\* the orders in which the workers of create_population can complete: more
\* than one where the pool is given more than one task
CreateOrders(draw, solver_raises) ==
    IF processes # 0 /\ ~solver_raises /\ Len(draw) > 1 THEN Perms(MaxDraw)
    ELSE {Idx(MaxDraw)}

CreatePopulation ==
    \E draw \in Draws, solver_raises \in BOOLEAN, kept \in Kept :
        \E ord \in CreateOrders(draw, solver_raises) :
            Store(CreateOp(Begin("create_population"), draw, solver_raises, ord, kept))

\* reading a property whose value is cached changes nothing (a stuttering step)
ReadTable ==
    \E name \in {"bpp", "bcm", "initC", "kick_info"} :
        /\ TableField(Self, name) = None
        /\ \E draw \in DrawsFor(Self), solver_raises \in BOOLEAN :
            Store(TableProp(Begin("table property"), name, draw, solver_raises))

ReadOrbits ==
    /\ orbits = None
    /\ \E draw \in DrawsFor(Self), solver_raises \in SolverFor(Self), ord \in OrdersFor(Self) :
        Store(OrbitsProp(Begin("orbits"), draw, solver_raises, ord))

ReadFinalCoords ==
    /\ final_coords = None
    /\ \E draw \in DrawsFor(Self), solver_raises \in SolverFor(Self),
          ord \in IF orbits = None THEN OrdersFor(Self) ELSE {Idx(MaxDraw)} :
        Store(FinalCoordsProp(Begin("final_coords"), draw, solver_raises, ord))

ReadFinalBpp ==
    /\ final_bpp = None
    /\ \E draw \in DrawsFor(Self), solver_raises \in SolverFor(Self) :
        Store(FinalBppProp(Begin("final_bpp"), draw, solver_raises))

ReadObservables ==
    /\ observables = None
    /\ \E draw \in DrawsFor(Self), solver_raises \in SolverFor(Self),
          ord \in IF orbits = None THEN OrdersFor(Self) ELSE {Idx(MaxDraw)} :
        Store(ObservablesProp(Begin("observables"), draw, solver_raises, ord))

ReadClasses ==
    /\ classes = None
    /\ \E draw \in DrawsFor(Self), solver_raises \in SolverFor(Self),
          ord \in IF orbits = None THEN OrdersFor(Self) ELSE {Idx(MaxDraw)} :
        Store(ClassesProp(Begin("classes"), draw, solver_raises, ord))

\* get_final_coords() and get_observables() called as methods
GetFinalCoordsCall ==
    \E draw \in DrawsFor(Self), solver_raises \in SolverFor(Self),
       ord \in IF orbits = None THEN OrdersFor(Self) ELSE {Idx(MaxDraw)} :
        Store(GetFinalCoordsOp(Begin("get_final_coords"), draw, solver_raises, ord))

GetObservables ==
    \E draw \in DrawsFor(Self), solver_raises \in SolverFor(Self),
       ord \in IF orbits = None THEN OrdersFor(Self) ELSE {Idx(MaxDraw)} :
        Store(GetObservablesOp(Begin("get_observables"), draw, solver_raises, ord))

ReadTotals ==
    /\ ~sampled
    /\ \E draw \in Draws :
        Store(TotalsProp(Begin("totals property"), draw))

Save ==
    \E overwrite \in BOOLEAN, draw \in DrawsFor(Self), solver_raises \in SolverFor(Self),
       ord \in IF orbits = None THEN OrdersFor(Self) ELSE {Idx(MaxDraw)} :
        Store(SaveOp(Begin("save"), overwrite, draw, solver_raises, ord))

Load ==
    /\ TRUE
    /\ Store(LoadOp(Begin("load")))

\* between two calls the interpreter finalises a pool that line 239 dropped,
\* once nothing refers to it any more: its workers are terminated
FinalisePool ==
    /\ orphans > 0
    /\ Store([Begin("interpreter") EXCEPT !.orphans = @ - 1])

Next ==
    \/ SampleInitialBinaries
    \/ PerformStellarEvolution
    \/ PerformGalacticEvolution
    \/ CreatePopulation
    \/ ReadTable
    \/ ReadOrbits
    \/ ReadFinalCoords
    \/ ReadFinalBpp
    \/ ReadObservables
    \/ ReadClasses
    \/ GetFinalCoordsCall
    \/ GetObservables
    \/ ReadTotals
    \/ Save
    \/ Load
    \/ FinalisePool

Spec == Init /\ [][Next]_vars

\* A population built where an earlier run left the orbits file and the
\* potential file of the same name, and no container (a save(overwrite=True)
\* of another population that failed after line 504, or a removed container)
LeftoverFiles == [h5 |-> None, npy |-> Some(<<>>), txt |-> TRUE]
InitAmongFiles ==
    /\ processes = 1
    /\ n_binaries_match = n_binaries
    /\ pool = "None"
    /\ orphans = 0
    /\ initial_binaries = None
    /\ sampled = FALSE
    /\ bpp = None
    /\ bcm = None
    /\ initC = None
    /\ kick_info = None
    /\ orbits = None
    /\ final_coords = None
    /\ final_bpp = None
    /\ observables = None
    /\ classes = None
    /\ initial_galaxy = None
    /\ nans_h5 = None
    /\ disk = LeftoverFiles
    /\ op = "__init__"
    /\ exc = "none"
    /\ phases = <<>>
    /\ order = <<>>
    /\ tasks = <<>>
    /\ origin = "constructed"
    /\ settings \in Settings
    /\ universe \in Universes
    /\ calls = 0
    /\ OrbitIdle
    /\ RewindIdle

SpecAmongFiles == InitAmongFiles /\ [][Next]_vars

----------------------------------------------------------------------------
(* The orbit of one binary: identify_events (kicker.events) and            *)
(* integrate_orbit_with_events (kicker.kicks), as                          *)
(* perform_galactic_evolution calls them for the binary at position i.     *)
(* Times are whole numbers of Gyr.                                         *)

\* the variables of the population
pop_vars == <<processes, n_binaries_match, pool, orphans, initial_binaries, sampled,
              bpp, bcm, initC, kick_info, orbits, final_coords, final_bpp,
              observables, classes, initial_galaxy, nans_h5, disk, op, exc,
              phases, order, tasks, origin, settings, universe, calls>>

\* a history row of the binary together with the kick row that corresponds to
\* it: the elapsed time since birth, the star the kick row is for (0: the row
\* has no kick row), the velocity delta of the kick row, the unbound flag, the
\* merged flag. A binary is bound, disrupted or merged: never two of them.
HistoryRows ==
    {r \in [time : 0..MaxTau, star : 0..2, delta : 0..1,
            unbound : BOOLEAN, merged : BOOLEAN] :
        /\ r.star = 0 => r.delta = 0
        /\ ~(r.unbound /\ r.merged)}
\* the solver writes the rows of a binary in time order, a disrupted binary
\* stays disrupted and a merged binary stays merged; the merged star may still
\* have kick rows
TimeOrdered(h) == \A k \in 1..(Len(h) - 1) : h[k].time <= h[k + 1].time
StaysUnbound(h) == \A k \in 1..(Len(h) - 1) : h[k].unbound => h[k + 1].unbound
StaysMerged(h) == \A k \in 1..(Len(h) - 1) : h[k].merged => h[k + 1].merged
Histories ==
    {h \in UNION {[1..n -> HistoryRows] : n \in 0..MaxRows} :
        TimeOrdered(h) /\ StaysUnbound(h) /\ StaysMerged(h)}

\* the three kinds of event
KickEvent(r) == [type |-> "kick", time |-> r.time, star |-> r.star, delta |-> r.delta]
DisruptionEvent(r) == [type |-> "disruption", time |-> r.time, star |-> 0, delta |-> 0]
MergerEvent(r) == [type |-> "merger", time |-> r.time, star |-> 0, delta |-> 0]

\* the bound/unbound flag transitions to unbound at row k
BecomesUnbound(h, k) == h[k].unbound /\ (k = 1 \/ ~h[k - 1].unbound)
\* the binary merges at row k
BecomesMerged(h, k) == h[k].merged /\ (k = 1 \/ ~h[k - 1].merged)

\* the events of row k: a kick for a nonzero velocity delta, a disruption for
\* the transition to unbound, a merger for the transition to merged
RowEvents(h, k) ==
    (IF h[k].star # 0 /\ h[k].delta # 0 THEN <<KickEvent(h[k])>> ELSE <<>>)
        \o (IF BecomesUnbound(h, k) THEN <<DisruptionEvent(h[k])>> ELSE <<>>)
        \o (IF BecomesMerged(h, k) THEN <<MergerEvent(h[k])>> ELSE <<>>)

\* the rows visited in order, from row k on
RECURSIVE Emitted(_, _)
Emitted(h, k) == IF k > Len(h) THEN <<>> ELSE RowEvents(h, k) \o Emitted(h, k + 1)

\* the fixed priority at one tick: kicks before the disruption; the merger,
\* which ends the trajectory, after the kicks of its tick
Priority(e) == IF e.type = "kick" THEN 0 ELSE IF e.type = "disruption" THEN 1 ELSE 2
Precedes(a, b) == a.time < b.time \/ (a.time = b.time /\ Priority(a) < Priority(b))
\* the place of s[i] when s is put in order of time and priority, equal
\* entries keeping their order
Rank(s, i) ==
    Cardinality({j \in 1..Len(s) : Precedes(s[j], s[i])
                                     \/ (~Precedes(s[i], s[j]) /\ j < i)}) + 1
InOrder(s) == [r \in 1..Len(s) |-> s[CHOOSE i \in 1..Len(s) : Rank(s, i) = r]]

\* an extractor that returns the events in the order of the rows
ExtractEventsInRowOrder(h) == Emitted(h, 1)

\* extract_events for one binary
ExtractEvents(h) == InOrder(Emitted(h, 1))

\* MalformedHistoryError: the binary has no rows
ExtractRaises(h) == Len(h) = 0

\* lines 402-404 and 414-417: the arguments for binary i
OrbitArgs(w0, evs, tau, dt) ==
    [w0 |-> w0, events |-> evs, t1 |-> MaxEvTime - tau, t2 |-> MaxEvTime, dt |-> dt]

\* the time of an event on the integration's clock, kept within the interval
Min(a, b) == IF a < b THEN a ELSE b
EventTime(e, t1, t2) == Min(t1 + e.time, t2)

\* an integration that only ever takes whole steps
RECURSIVE AdvanceOnGrid(_, _, _)
AdvanceOnGrid(t, target, dt) ==
    IF t >= target THEN <<>> ELSE <<t + dt>> \o AdvanceOnGrid(t + dt, target, dt)

\* one sub-interval: the times after t up to target, by steps of dt and a
\* shorter last step where target is not a whole number of steps away
RECURSIVE Advance(_, _, _)
Advance(t, target, dt) ==
    IF t >= target THEN <<>>
    ELSE IF t + dt >= target THEN <<target>>
    ELSE <<t + dt>> \o Advance(t + dt, target, dt)

\* the sub-intervals up to the last of the events evs
RECURSIVE UpTo(_, _, _, _, _)
UpTo(t, evs, t1, t2, dt) ==
    IF Len(evs) = 0 THEN <<>>
    ELSE Advance(t, EventTime(Head(evs), t1, t2), dt)
            \o UpTo(EventTime(Head(evs), t1, t2), Tail(evs), t1, t2, dt)

\* the sub-intervals up to t2
RECURSIVE Through(_, _, _, _, _)
Through(t, evs, t1, t2, dt) ==
    IF Len(evs) = 0 THEN Advance(t, t2, dt)
    ELSE Advance(t, EventTime(Head(evs), t1, t2), dt)
            \o Through(EventTime(Head(evs), t1, t2), Tail(evs), t1, t2, dt)

Disruptions(evs) == {i \in 1..Len(evs) : evs[i].type = "disruption"}
Mergers(evs) == {i \in 1..Len(evs) : evs[i].type = "merger"}
\* the events up to the merger: none is applied after it
UntilMerger(evs) ==
    IF Mergers(evs) = {} THEN evs ELSE SubSeq(evs, 1, Least(Mergers(evs)))
\* the terminal time: t_end or the merger, whichever is reached first
EndTime(a) ==
    IF Mergers(a.events) = {} THEN a.t2
    ELSE EventTime(a.events[Least(Mergers(a.events))], a.t1, a.t2)
\* the integration as far as it goes
Terminated(a) == [a EXCEPT !.events = UntilMerger(a.events), !.t2 = EndTime(a)]
\* the remaining events of component c
ForComponent(evs, c) == SelectSeq(evs, LAMBDA e : e.type = "kick" /\ e.star = c)

\* the times of the trajectory of a binary that stays bound or merges
Whole(a) == <<a.t1>> \o Through(a.t1, a.events, a.t1, a.t2, a.dt)
\* a component integrated on its own from t1, through its own kicks only
ComponentAlone(a, d, c) ==
    <<a.t1>> \o Through(a.t1, ForComponent(a.events, c), a.t1, a.t2, a.dt)

\* the times of the trajectory of component c of a binary disrupted by event d
Component(a, d, c) ==
    <<a.t1>> \o UpTo(a.t1, SubSeq(a.events, 1, d), a.t1, a.t2, a.dt)
             \o Through(EventTime(a.events[d], a.t1, a.t2),
                        ForComponent(SubSeq(a.events, d + 1, Len(a.events)), c),
                        a.t1, a.t2, a.dt)

\* one trajectory for a bound or merged binary, a pair for a disrupted one
Trajectories(a) ==
    IF Disruptions(a.events) = {} THEN [kind |-> "bound", times |-> <<Whole(a)>>]
    ELSE [kind |-> "disrupted",
          times |-> <<Component(a, Least(Disruptions(a.events)), 1),
                      Component(a, Least(Disruptions(a.events)), 2)>>]

\* integrate: the missing trajectory for an undefined initial state, whatever
\* the events; otherwise the trajectories up to the terminal time
IntegrateOrbit(a) ==
    IF ~a.w0 THEN [kind |-> "None", times |-> <<>>]
    ELSE Trajectories(Terminated(a))

\* one binary of a population: its history (no row later than tphysf = tau),
\* its birth time, the step size, and whether it has an initial state
OrbitInit ==
    /\ PopInit
    /\ processes = 0
    /\ universe = CHOOSE u \in Universes : TRUE
    /\ settings = CHOOSE x \in Settings : TRUE
    /\ b_tau \in 1..MaxTau
    /\ b_dt \in 1..MaxDt
    /\ b_formed \in BOOLEAN
    /\ b_history \in Histories
    /\ \A k \in 1..Len(b_history) : b_history[k].time <= b_tau
    /\ b_stage = "history"
    /\ b_events = None
    /\ b_args = None
    /\ b_orbit = None
    /\ RewindIdle

\* line 390: events = identify_events(full_bpp=self.bpp, full_kick_info=self.kick_info)
Extract ==
    /\ b_stage = "history"
    /\ b_stage' = IF ExtractRaises(b_history) THEN "MalformedHistoryError" ELSE "events"
    /\ b_events' = IF ExtractRaises(b_history) THEN None ELSE Some(ExtractEvents(b_history))
    /\ UNCHANGED <<b_history, b_formed, b_tau, b_dt, b_args, b_orbit>>
    /\ UNCHANGED pop_vars
    /\ UNCHANGED rewind_vars

\* lines 402-405 and 414-417: integrate_orbit_with_events for binary i
IntegrateBinary ==
    /\ b_stage = "events"
    /\ b_stage' = "orbit"
    /\ b_args' = Some(OrbitArgs(b_formed, Val(b_events), b_tau, b_dt))
    /\ b_orbit' = Some(IntegrateOrbit(OrbitArgs(b_formed, Val(b_events), b_tau, b_dt)))
    /\ UNCHANGED <<b_history, b_formed, b_tau, b_dt, b_events>>
    /\ UNCHANGED pop_vars
    /\ UNCHANGED rewind_vars

OrbitNext ==
    \/ Extract
    \/ IntegrateBinary

OrbitSpec == OrbitInit /\ [][OrbitNext]_vars

----------------------------------------------------------------------------
(* rewind_to_formation (cogsworth.hydro.rewind): the particles of a        *)
(* snapshot are integrated back to their formation times and tabulated.    *)
(* Times are whole numbers of Myr.                                         *)

\* the largest number of particles of a snapshot
MaxParticles == 2

\* line 67: in_units("Gyr") of a time kept in Myr
MyrPerGyr == 1000
InGyr(t) == t \div MyrPerGyr

\* a particle: its present and its formation mass, its row of the metals
\* array, its formation time and its present phase-space position
Particles ==
    [mass : {5}, massform : {6}, metals : {<<1, 9>>}, tform : {1000, 2000}, w : {1, 2}]

\* a snapshot: its particles, its time, whether it has the massform key, and
\* the number of dimensions of its metals array
Snapshots ==
    [particles : UNION {[1..n -> Particles] : n \in 0..MaxParticles},
     time : {3000}, has_massform : BOOLEAN, metals_ndim : {1, 2}]

\* subsnap["metals"]: one number per particle, or one row per particle
MetalsArray(snap) ==
    [i \in 1..Len(snap.particles) |->
        IF snap.metals_ndim = 1 THEN snap.particles[i].metals[1]
        ELSE snap.particles[i].metals]

\* line 66: the array itself, or its first column
MetalsColumn(snap) ==
    IF snap.metals_ndim = 1 THEN MetalsArray(snap)
    ELSE [i \in 1..Len(snap.particles) |-> MetalsArray(snap)[i][1]]

\* lines 58-62: the formation masses, or the present masses with a warning
Masses(snap) ==
    [i \in 1..Len(snap.particles) |->
        IF snap.has_massform THEN snap.particles[i].massform
        ELSE snap.particles[i].mass]

\* lines 36-39: _tohspans, the last point of the orbit integrated from the
\* snapshot time back to t2
Tohspans(snap, w0, t2, dt) == [w0 |-> w0, t1 |-> snap.time, t2 |-> t2, dt |-> dt]

\* line 55: one integration per particle, in the order of the particles
RewoundSingle(snap, dt) ==
    [i \in 1..Len(snap.particles) |->
        Tohspans(snap, snap.particles[i].w, snap.particles[i].tform, dt)]

\* lines 49-51: starmap pickles _tohspans with the first task; a function
\* defined inside a function cannot be pickled (AttributeError up to
\* Python 3.11, PicklingError from 3.12); with no task nothing is pickled
StarmapRaises(snap) == Len(snap.particles) > 0

\* lines 64-72: a table of len(subsnap) rows of zeros, columns 0-2 filled from
\* the snapshot and columns 3-8 of row i from w0[i]
Zeros == [w0 |-> 0, t1 |-> 0, t2 |-> 0, dt |-> 0]
InitParticles(snap, w0) ==
    [i \in 1..Len(snap.particles) |->
        [mass |-> Masses(snap)[i], Z |-> MetalsColumn(snap)[i],
         t_form |-> InGyr(snap.particles[i].tform),
         xv |-> IF i <= Len(w0) THEN w0[i] ELSE Zeros]]

\* rewind_to_formation(subsnap, pot, dt, processes): the exception, the table
\* returned and the pool, which the with statement terminates on either exit
RewindToFormationOp(snap, dt, procs) ==
    IF procs > 1 /\ StarmapRaises(snap)
    THEN [exc |-> "AttributeError", df |-> None, pool |-> "terminated"]
    ELSE [exc |-> "none",
          df |-> Some(InitParticles(snap, RewoundSingle(snap, dt))),
          pool |-> IF procs > 1 THEN "terminated" ELSE "None"]

\* line 12: the default of dt
DefaultDt == -1

RewindInit ==
    /\ PopInit
    /\ processes = 0
    /\ universe = CHOOSE u \in Universes : TRUE
    /\ settings = CHOOSE x \in Settings : TRUE
    /\ OrbitIdle
    /\ r_subsnap \in Snapshots
    /\ r_processes \in 1..MaxProcesses
    /\ r_stage = "args"
    /\ r_exc = "none"
    /\ r_pool = "None"
    /\ r_df = None

RewindToFormation ==
    /\ r_stage = "args"
    /\ r_stage' = "returned"
    /\ r_exc' = RewindToFormationOp(r_subsnap, DefaultDt, r_processes).exc
    /\ r_df' = RewindToFormationOp(r_subsnap, DefaultDt, r_processes).df
    /\ r_pool' = RewindToFormationOp(r_subsnap, DefaultDt, r_processes).pool
    /\ UNCHANGED <<r_subsnap, r_processes>>
    /\ UNCHANGED pop_vars
    /\ UNCHANGED orbit_vars

RewindNext == RewindToFormation

RewindSpec == RewindInit /\ [][RewindNext]_vars

----------------------------------------------------------------------------
(* Properties of perform_galactic_evolution *)

\* the last call ran the orbit integration to its end
Integrated == exc = "none" /\ "integrate" \in Range(phases)

\* the task the code builds for index i from what the population holds
TaskOf(i) ==
    TaskArgs(Val(initial_galaxy).arr, IdentifyEvents(Val(bpp), Val(kick_info)),
             Val(initial_galaxy).arr, i)

\* C1: after a galactic evolution over K = n_binaries_match binaries the orbits
\* array has exactly K entries (K a count, i.e. not negative), one task was built
\* per index from the initial state, the events and the birth time of the
\* binary at that index, and entry i is the result of task i, whatever the
\* order in which the workers completed.
C1_OrbitsInTaskOrder ==
    Integrated =>
        /\ orbits # None
        /\ n_binaries_match >= 0 => Len(Val(orbits)) = n_binaries_match
        /\ Len(tasks) = Len(Val(orbits))
        /\ \A i \in 1..Len(tasks) :
            /\ tasks[i] = TaskOf(i)
            /\ Val(orbits)[i] = Integrate(tasks[i])

\* C2: when the integration of exactly one binary fails, the call still
\* completes, the orbits array holds the missing marker at that binary's index
\* and every other binary's orbit is at its own index.
C2_FailureIsolated ==
    (/\ "integrate" \in Range(phases)
     /\ Cardinality({i \in 1..Len(tasks) : IntegrateRaises(tasks[i])}) = 1)
    => /\ exc = "none"
       /\ orbits # None
       /\ Len(Val(orbits)) = n_binaries_match
       /\ \A i \in 1..Len(Val(orbits)) :
            Val(orbits)[i] = IF IntegrateRaises(TaskOf(i)) THEN NoOrbit
                             ELSE Integrate(TaskOf(i))

\* C3: no call ends leaving an open pool behind, referenced by self.pool or
\* not, whether the call returned or raised.
C3_NoOpenPoolLeft == pool # "open" /\ orphans = 0

\* C4: with processes > 1 and no pool held, perform_stellar_evolution followed
\* directly by perform_galactic_evolution completes both phases and leaves one
\* orbit per binary; the galactic phase is not handed a closed pool.
C4_StellarThenGalactic ==
    [][(/\ op = "perform_stellar_evolution"
        /\ exc = "none"
        /\ processes > 1
        /\ op' = "perform_galactic_evolution"
        /\ \A i \in 1..Len(Val(bpp)) : NatureOf(Val(bpp)[i].bin_num) # "fails")
       => /\ exc' = "none"
          /\ orbits' # None
          /\ Len(Val(orbits')) = Len(Val(initC'))]_vars

----------------------------------------------------------------------------
(* Properties of perform_stellar_evolution *)

\* the distinct binaries of a table for which the solver returns a NaN
Pathological(ib) == Range(NanBinNums(EvolveBpp(ib), EvolveKickInfo(ib)))

\* C5: a stellar evolution that quarantines N distinct binaries lowers
\* n_binaries_match and the size of the initial galaxy by exactly N, however
\* the NaNs are spread over the final history rows and the kick rows.
C5_CountDropsByQuarantined ==
    [][(/\ op' = "perform_stellar_evolution"
        /\ exc' = "none")
       => /\ n_binaries_match' =
                (IF "sample" \in Range(phases') THEN Len(Val(initial_binaries'))
                 ELSE n_binaries_match)
                - Cardinality(Pathological(Val(initial_binaries')))
          /\ Val(initial_galaxy').size =
                (IF "sample" \in Range(phases') THEN Len(Val(initial_binaries'))
                 ELSE Val(initial_galaxy).size)
                - Cardinality(Pathological(Val(initial_binaries')))]_vars

\* C6: after a quarantine every per-binary table and array held in memory (the
\* history, its final rows, the initial conditions, the kick table, the sampled
\* initial binaries, the initial-galaxy arrays) holds exactly the retained
\* binaries in their original order, so position i is the same binary in all.
C6_TablesAligned ==
    (op = "perform_stellar_evolution" /\ exc = "none" /\ nans_h5 # None)
    => /\ Range(BinNums(Val(initC))) \cap Range(BinNums(Val(nans_h5).initC)) = {}
       /\ BinNums(FinalRows(Val(bpp))) = BinNums(Val(initC))
       /\ BinNums(Val(bcm)) = BinNums(Val(initC))
       /\ BinNums(FinalRows(Val(kick_info))) = BinNums(Val(initC))
       /\ Val(initial_galaxy).arr = BinNums(Val(initC))
       /\ BinNums(Val(initial_binaries)) = BinNums(Val(initC))

\* C7: once perform_stellar_evolution or perform_galactic_evolution has
\* completed, the cached final positions and the cached observables are empty.
C7_CachesInvalidated ==
    (op \in {"perform_stellar_evolution", "perform_galactic_evolution"} /\ exc = "none")
    => final_coords = None /\ observables = None

\* C8: re-running perform_stellar_evolution on a population that holds orbits
\* invalidates them: the orbits property does not go on returning orbits
\* computed from the previous evolution history.
C8_OrbitsInvalidated ==
    [][(orbits # None /\ op' = "perform_stellar_evolution" /\ exc' = "none")
       => orbits' = None]_vars

\* C9: perform_galactic_evolution, called directly or through the orbits
\* property on a population that was not sampled or not evolved, does not fail
\* for want of a prerequisite.
C9_PrerequisitesForced ==
    op \in {"perform_galactic_evolution", "orbits"} => exc # "AttributeError"

\* C10: perform_stellar_evolution, called directly or through a table property,
\* samples first and then invokes the solver when the population holds neither
\* sampled binaries nor initial conditions; otherwise it does not sample, and
\* with initial conditions only (a loaded population) it evolves those.  The
\* solver is invoked once, on the whole table.
C10_SampleThenEvolveOnce ==
    [][(op' \in {"perform_stellar_evolution", "table property"})
       => /\ phases' = IF initial_binaries = None /\ initC = None
                       THEN <<"sample", "evolve">> ELSE <<"evolve">>
          /\ (initial_binaries = None /\ initC # None) => initial_binaries' = initC
          /\ initial_binaries # None => initial_binaries' = initial_binaries
          /\ exc' = "none"
                => Range(BinNums(Val(initC'))) \subseteq Range(BinNums(Val(initial_binaries')))]_vars

\* a loaded population was evolved again, from its stored initial conditions
C10_Witness ==
    /\ origin = "loaded"
    /\ op = "perform_stellar_evolution"
    /\ exc = "none"
    /\ phases = <<"evolve">>
    /\ initial_binaries # None
    /\ BinNums(Val(bcm)) # <<>>

----------------------------------------------------------------------------
(* Properties of create_population *)

\* C11: create_population runs sampling, stellar evolution and galactic
\* evolution in that order, each once, and on normal return orbits holds
\* n_binaries_match entries and the population holds no pool, whatever the
\* value of processes.
C11_CreateRunsPhasesInOrder ==
    (op = "create_population" /\ exc = "none")
    => /\ phases = <<"sample", "evolve", "integrate">>
       /\ pool = "None"
       /\ orbits # None
       /\ Len(Val(orbits)) = n_binaries_match

----------------------------------------------------------------------------
(* The pool branch against the sequential branch *)

\* the population with its worker count set to P and no pool held
\* (p.processes = P), at the start of perform_galactic_evolution
WithWorkers(P) ==
    [Begin("perform_galactic_evolution") EXCEPT !.processes = P, !.pool = "None"]

\* two runs end alike: both raise, or both complete having issued the same
\* integration calls and stored the same orbits
SameOutcome(A, B) ==
    /\ Ok(A) = Ok(B)
    /\ Ok(A) => (A.tasks = B.tasks /\ A.orbits = B.orbits)

\* C12: for the same population, perform_galactic_evolution with P > 1 workers
\* (the pool branch) and with P = 1 and no pool (the loop) issue the same
\* integration calls and store the same orbits, whatever the order in which
\* the workers complete.
C12_PoolEqualsLoop ==
    \A ord \in Perms(MaxDraw) :
        SameOutcome(GalacticOp(WithWorkers(1), <<>>, FALSE, Idx(MaxDraw)),
                    GalacticOp(WithWorkers(MaxProcesses), <<>>, FALSE, ord))

----------------------------------------------------------------------------
(* Properties of get_final_coords *)

\* the two records the population caches
FirstRecord == Val(final_coords)[1]
SecondRecord == Val(final_coords)[2]
HasMissing(t_orbits) == \E i \in 1..Len(t_orbits) : t_orbits[i].kind = "None"

\* record entry r holds the last sample of component c of trajectory o
IsLastSample(r, o, c) ==
    \A k \in 1..6 : /\ ~r[k].inf
                    /\ r[k].axis = k
                    /\ r[k].comp = c
                    /\ r[k].w0 = o.w0 /\ r[k].events = o.events /\ r[k].t1 = o.t1

\* C13: get_final_coords gives a missing orbit positive infinity in all six
\* coordinates of both records at the binary's index; a missing orbit raises no
\* error and leaves every other binary at its own index.
C13_MissingOrbitIsInfinity ==
    /\ (op = "final_coords" /\ orbits # None /\ HasMissing(Val(orbits)))
            => (exc = "none" /\ final_coords # None)
    /\ final_coords # None
            => /\ orbits # None
               /\ Len(FirstRecord) = Len(Val(orbits))
               /\ Len(SecondRecord) = Len(Val(orbits))
               /\ \A i \in 1..Len(Val(orbits)) :
                    IF Val(orbits)[i].kind = "None"
                    THEN \A k \in 1..6 : FirstRecord[i][k] = Inf /\ SecondRecord[i][k] = Inf
                    ELSE \A k \in 1..6 : /\ ~FirstRecord[i][k].inf
                                         /\ FirstRecord[i][k].events = Val(orbits)[i].events

\* final_coords was computed for a population with a missing orbit next to a
\* trajectory
C13_Witness ==
    /\ op = "final_coords"
    /\ exc = "none"
    /\ final_coords # None
    /\ HasMissing(Val(orbits))
    /\ \E j \in 1..Len(Val(orbits)) : Val(orbits)[j].kind = "bound"

\* C14: get_final_coords returns two records with one entry per orbit, in
\* orbit order: a bound or merged orbit has its last sample in the first record
\* and infinity in the second; a disrupted orbit has the last sample of its
\* first component in the first record and of its second in the second.
C14_FinalCoordsPerOrbit ==
    (op = "final_coords" /\ orbits # None)
    => /\ exc = "none"
       /\ final_coords # None
       /\ Len(FirstRecord) = Len(Val(orbits))
       /\ Len(SecondRecord) = Len(Val(orbits))
       /\ \A i \in 1..Len(Val(orbits)) :
            /\ Val(orbits)[i].kind = "bound"
                => /\ IsLastSample(FirstRecord[i], Val(orbits)[i], 0)
                   /\ SecondRecord[i] = InfRecord
            /\ Val(orbits)[i].kind = "disrupted"
                => /\ IsLastSample(FirstRecord[i], Val(orbits)[i], 1)
                   /\ IsLastSample(SecondRecord[i], Val(orbits)[i], 2)

----------------------------------------------------------------------------
(* Properties of save and load *)

\* the fields of the population and the files, without the record of the call
fields == <<processes, n_binaries_match, pool, orphans, initial_binaries, sampled,
            bpp, bcm, initC, kick_info, orbits, final_coords, final_bpp,
            observables, classes, initial_galaxy, nans_h5, disk, origin, settings>>

\* C15: save(file_name, overwrite=False) on a container that exists raises
\* FileExistsError and changes nothing: no file is written, truncated or
\* removed, no phase runs, and the fields of the population are as before.
C15_RefusedSaveChangesNothing ==
    [][/\ (disk.h5 # None /\ op' = "save")
            => \A draw \in DrawsFor(Self), solver_raises \in BOOLEAN, ord \in Perms(MaxDraw) :
                  SaveOp(Begin("save"), FALSE, draw, solver_raises, ord)
                    = Raise(Begin("save"), "FileExistsError")
       /\ (op' = "save" /\ exc' = "FileExistsError")
            => (disk.h5 # None /\ phases' = <<>> /\ tasks' = <<>> /\ UNCHANGED fields)]_vars

\* a save was refused because the container was there
C15_Witness ==
    /\ op = "save"
    /\ exc = "FileExistsError"
    /\ disk.h5 # None
    /\ phases = <<>>

\* the population has been through the galactic phase: tables and orbits are there
GalacticEvolved ==
    /\ bpp # None /\ bcm # None /\ initC # None /\ kick_info # None
    /\ orbits # None

\* two settings records with equal lists and equal setting values
SameSettings(a, b) ==
    /\ SameValue(a.final_kstar1, b.final_kstar1)
    /\ SameValue(a.final_kstar2, b.final_kstar2)
    /\ DOMAIN a.BSE_settings = DOMAIN b.BSE_settings
    /\ \A k \in DOMAIN a.BSE_settings : SameValue(a.BSE_settings[k], b.BSE_settings[k])

\* the container holds the scalar block, the k_stars and the settings block
HasBlocks(h5) == h5.params # None /\ h5.k_stars # None /\ h5.bse # None

\* C16: save of a GalacticEvolved population (where it is not refused because
\* the container exists) completes and leaves in the container the scalar
\* parameters, the final_kstar lists and the settings of the population, and
\* load of such a container returns a population with these values.
C16_ParametersRoundTrip ==
    [][/\ (GalacticEvolved /\ op' = "save" /\ exc' # "FileExistsError")
            => /\ exc' = "none"
               /\ UNCHANGED <<processes, n_binaries_match, sampled, settings>>
               /\ disk'.h5 # None
               /\ HasBlocks(Val(disk'.h5))
               /\ Val(Val(disk'.h5).params) = NumericParams(Self)
       /\ (op' = "load" /\ exc' = "none")
            => /\ HasBlocks(Val(disk.h5))
               /\ NumericParams(Self') = Val(Val(disk.h5).params)
               /\ sampled'
               /\ SameValue(settings'.final_kstar1, NdArray(Val(Val(disk.h5).k_stars).v[1]))
               /\ SameValue(settings'.final_kstar2, NdArray(Val(Val(disk.h5).k_stars).v[2]))
               /\ \A k \in DOMAIN settings'.BSE_settings :
                     SameValue(settings'.BSE_settings[k], Val(Val(disk.h5).bse)[k])
       /\ (GalacticEvolved /\ op' = "save" /\ exc' = "none")
            => LoadOp([Self' EXCEPT !.exc = "none"]).exc = "none"
               /\ SameSettings(LoadOp([Self' EXCEPT !.exc = "none"]).settings, settings)]_vars

\* the population load returns from the files of the state S
AfterLoad(S) == LoadOp([S EXCEPT !.op = "load", !.exc = "none"])

\* two trajectory arrays of one length with the missing-trajectory markers and
\* the disrupted pairs at the same indices
SameMarkers(a, b) ==
    /\ Len(a) = Len(b)
    /\ \A i \in 1..Len(a) : a[i].kind = b[i].kind

\* C17: save of a GalacticEvolved population (where it is not refused because
\* the container exists) completes, and load then returns the same four tables,
\* the same initial-galaxy state and a trajectory array of the same length with
\* every missing-trajectory marker and every disrupted pair at its index.
C17_TablesAndOrbitsRoundTrip ==
    [][(GalacticEvolved /\ op' = "save" /\ exc' # "FileExistsError")
        => /\ exc' = "none"
           /\ UNCHANGED <<bpp, bcm, initC, kick_info, initial_galaxy, orbits>>
           /\ AfterLoad(Self').exc = "none"
           /\ AfterLoad(Self').bpp = bpp
           /\ AfterLoad(Self').bcm = bcm
           /\ AfterLoad(Self').initC = initC
           /\ AfterLoad(Self').kick_info = kick_info
           /\ AfterLoad(Self').initial_galaxy = initial_galaxy
           /\ AfterLoad(Self').orbits # None
           /\ SameMarkers(Val(AfterLoad(Self').orbits), Val(orbits))]_vars

----------------------------------------------------------------------------
(* Properties of the quarantine *)

\* the solver returned its tables in the last call
SolverReturned == op = "perform_stellar_evolution" /\ exc \notin {"SolverError", "ValueError"}

\* the binaries of a table
BinariesOf(t) == Range(BinNums(t))

\* C18: when the solver has returned in perform_stellar_evolution, the call
\* returns normally; the tables then hold exactly the evolved binaries with
\* finite output, and the side file the rows of exactly the others.
C18_QuarantineExactNonFatal ==
    [][SolverReturned' =>
        /\ exc' = "none"
        /\ BinariesOf(Val(bpp')) = BinariesOf(Val(initial_binaries')) \ Pathological(Val(initial_binaries'))
        /\ BinariesOf(Val(kick_info')) = BinariesOf(Val(bpp'))
        /\ BinariesOf(Val(initC')) = BinariesOf(Val(bpp'))
        /\ BinariesOf(Val(bcm')) = BinariesOf(Val(bpp'))
        /\ Pathological(Val(initial_binaries')) # {}
            => /\ nans_h5' # None
               /\ BinariesOf(Val(nans_h5').bpp) = Pathological(Val(initial_binaries'))
               /\ BinariesOf(Val(nans_h5').initC) = Pathological(Val(initial_binaries'))
               /\ BinariesOf(Val(nans_h5').kick_info) = Pathological(Val(initial_binaries'))]_vars

----------------------------------------------------------------------------
(* Properties of the events and the trajectory of one binary *)

\* non-decreasing times, and at one tick no disruption before a kick
EventsOrdered(evs) ==
    \A i, j \in 1..Len(evs) :
        i < j => /\ evs[i].time <= evs[j].time
                 /\ evs[i].time = evs[j].time
                        => ~(evs[i].type = "disruption" /\ evs[j].type = "kick")

\* C19: the events of a binary, as identify_events returns them and as they
\* are handed to the integrator, are in non-decreasing time order, and at one
\* tick a kick event comes before the disruption event.
C19_EventsOrdered ==
    /\ b_events # None => EventsOrdered(Val(b_events))
    /\ b_args # None => /\ Val(b_args).events = Val(b_events)
                         /\ EventsOrdered(Val(b_args).events)

\* the integrator was handed a kick and a disruption of one tick, from a
\* history whose disruption row comes before its kick row
C19_Witness ==
    /\ b_args # None
    /\ Val(b_args).w0
    /\ Len(b_history) = 2
    /\ b_history[1].time = b_history[2].time
    /\ BecomesUnbound(b_history, 1)
    /\ b_history[1].star = 0
    /\ b_history[2].star # 0 /\ b_history[2].delta # 0
    /\ Len(Val(b_args).events) = 2
    /\ Val(b_args).events[1].type = "kick"
    /\ Val(b_args).events[2].type = "disruption"

\* the event times a trajectory passes through: for a bound binary all of
\* them, for a merged binary those up to the merger, for a component those up
\* to the disruption and its own later kicks
EventTimes(evs, a) == {EventTime(evs[i], a.t1, a.t2) : i \in 1..Len(evs)}
OwnEvents(a, d, c) ==
    SubSeq(a.events, 1, d) \o ForComponent(SubSeq(a.events, d + 1, Len(a.events)), c)
PassedTimes(a, c) ==
    IF \E i \in 1..Len(a.events) : a.events[i].type = "merger"
    THEN {EventTime(a.events[i], a.t1, a.t2) : i \in
             {i \in 1..Len(a.events) :
                 \A j \in 1..(i - 1) : a.events[j].type # "merger"}}
    ELSE IF Disruptions(a.events) = {} THEN EventTimes(a.events, a)
    ELSE EventTimes(OwnEvents(a, Least(Disruptions(a.events)), c), a)

\* the time of the merger of an event list that holds one
MergerTime(a) ==
    EventTime(a.events[CHOOSE i \in 1..Len(a.events) :
                           /\ a.events[i].type = "merger"
                           /\ \A j \in 1..(i - 1) : a.events[j].type # "merger"],
              a.t1, a.t2)
HasMerger(a) == \E i \in 1..Len(a.events) : a.events[i].type = "merger"

\* a trajectory from t1 to end whose steps are dt, or shorter and landing on
\* one of the times in landings
Stepwise(ts, a, end, landings) ==
    /\ Len(ts) > 0
    /\ ts[1] = a.t1
    /\ ts[Len(ts)] = end
    /\ \A k \in 1..(Len(ts) - 1) :
          /\ ts[k] <= ts[k + 1]
          /\ \/ ts[k + 1] - ts[k] = a.dt
             \/ (ts[k + 1] - ts[k] < a.dt /\ ts[k + 1] \in landings)

\* C20 as stated: the timestamps of every trajectory integrate returns are
\* non-decreasing, start at t_start = max_ev_time - tau, end at t_end =
\* max_ev_time, and advance by dt except for a shorter step that lands on an
\* event time.
C20_FixedStepsExceptAtEvents ==
    b_orbit # None =>
        \A c \in 1..Len(Val(b_orbit).times) :
            Stepwise(Val(b_orbit).times[c], Val(b_args), Val(b_args).t2,
                     PassedTimes(Val(b_args), c))

\* C20, amended: the timestamps of every trajectory integrate returns are
\* non-decreasing, start at t_start = max_ev_time - tau, end at the time of
\* the merger event if the event list holds one and at t_end = max_ev_time
\* otherwise, and advance by dt except for a shorter last step of a
\* sub-interval, which lands on the time of an event up to the merger or, in
\* a list without a merger, on t_end.
C20_FixedStepsExceptAtBoundaries ==
    b_orbit # None =>
        \A c \in 1..Len(Val(b_orbit).times) :
            Stepwise(Val(b_orbit).times[c], Val(b_args),
                     IF HasMerger(Val(b_args)) THEN MergerTime(Val(b_args))
                     ELSE Val(b_args).t2,
                     PassedTimes(Val(b_args), c)
                        \cup (IF HasMerger(Val(b_args)) THEN {} ELSE {Val(b_args).t2}))

\* a trajectory with a shorter step onto an event time and a shorter step onto
\* t_end, where no event is
C20_Witness ==
    /\ b_orbit # None
    /\ Val(b_orbit).kind = "disrupted"
    /\ \E k \in 1..(Len(Val(b_orbit).times[1]) - 1) :
          /\ Val(b_orbit).times[1][k + 1] - Val(b_orbit).times[1][k] < b_dt
          /\ Val(b_orbit).times[1][k + 1] \in PassedTimes(Val(b_args), 1)
          /\ Val(b_orbit).times[1][k + 1] # Val(b_args).t2
    /\ \E k \in 1..(Len(Val(b_orbit).times[1]) - 1) :
          /\ Val(b_orbit).times[1][k + 1] - Val(b_orbit).times[1][k] < b_dt
          /\ Val(b_orbit).times[1][k + 1] = Val(b_args).t2
          /\ Val(b_args).t2 \notin PassedTimes(Val(b_args), 1)

\* the time at which the binary of the arguments a is disrupted
DisruptionTime(a) == EventTime(a.events[Least(Disruptions(a.events))], a.t1, a.t2)
\* the part of a trajectory up to the time t
Before(ts, t) == SelectSeq(ts, LAMBDA x : x <= t)

\* C21 as stated: a disruption event in the event list yields exactly two
\* trajectories, one per component, whose parts up to the disruption time are
\* identical; without a disruption event the integrator returns a single
\* trajectory.
C21_DisruptionAlwaysYieldsPair ==
    b_orbit # None =>
        IF Disruptions(Val(b_args).events) # {}
        THEN /\ Len(Val(b_orbit).times) = 2
             /\ Before(Val(b_orbit).times[1], DisruptionTime(Val(b_args)))
                  = Before(Val(b_orbit).times[2], DisruptionTime(Val(b_args)))
        ELSE Len(Val(b_orbit).times) = 1

\* C21, amended: for a binary whose initial state is defined, a disruption
\* event in the event list yields exactly two trajectories, one per component,
\* which are identical up to the disruption time and both run on to t_end, and
\* a list without a disruption event yields a single trajectory; a binary
\* whose initial state is undefined yields the missing trajectory and no
\* other, whatever its events.
C21_DisruptionYieldsPair ==
    b_orbit # None =>
        IF ~Val(b_args).w0
        THEN /\ Val(b_orbit).kind = "None"
             /\ Len(Val(b_orbit).times) = 0
        ELSE IF Disruptions(Val(b_args).events) # {}
        THEN /\ Val(b_orbit).kind = "disrupted"
             /\ Len(Val(b_orbit).times) = 2
             /\ Before(Val(b_orbit).times[1], DisruptionTime(Val(b_args)))
                  = Before(Val(b_orbit).times[2], DisruptionTime(Val(b_args)))
             /\ DisruptionTime(Val(b_args)) \in Range(Val(b_orbit).times[1])
             /\ \A c \in 1..2 :
                   Val(b_orbit).times[c][Len(Val(b_orbit).times[c])] = Val(b_args).t2
        ELSE /\ Val(b_orbit).kind = "bound"
             /\ Len(Val(b_orbit).times) = 1

\* a disrupted binary whose pair of trajectories shares a part that holds a
\* kick before the disruption
C21_Witness ==
    /\ b_orbit # None
    /\ Val(b_orbit).kind = "disrupted"
    /\ Val(b_args).events[1].type = "kick"
    /\ Val(b_args).events[1].time < Val(b_args).events[2].time
    /\ Val(b_args).t1 + Val(b_args).events[1].time \in Range(Val(b_orbit).times[2])
    /\ Len(Before(Val(b_orbit).times[1], DisruptionTime(Val(b_args)))) > 2

----------------------------------------------------------------------------
(* Properties of save among existing files *)

\* one of the files save produces is there
AnyFileExists == disk.h5 # None \/ disk.npy # None \/ disk.txt

\* C22: whenever one of the files save produces exists (the container, the
\* orbits file, the potential file), save(file_name, overwrite=False) raises
\* FileExistsError and replaces none of them, whatever the inputs of the call.
C22_AnyExistingFileRefused ==
    AnyFileExists =>
        \A draw \in DrawsFor(Self), solver_raises \in SolverFor(Self), ord \in OrdersFor(Self) :
            SaveOp(Begin("save"), FALSE, draw, solver_raises, ord)
                = Raise(Begin("save"), "FileExistsError")

----------------------------------------------------------------------------
(* Properties of sample_initial_binaries *)

\* C23: after sample_initial_binaries the retained binaries are those of the
\* sampler's table with primary mass at or above m1_cutoff, n_binaries_match
\* is their number and the size of the initial-galaxy sample (one entry per
\* retained binary), and the four totals of the sampler are recorded.
C23_SampledPopulation ==
    [][op' = "sample_initial_binaries" =>
        /\ exc' = "none"
        /\ initial_binaries' # None
        /\ Val(initial_binaries') \in {MassCut(draw) : draw \in Draws}
        /\ \A k \in 1..Len(Val(initial_binaries')) : Val(initial_binaries')[k].mass_1 >= M1Cutoff
        /\ n_binaries_match' = Len(Val(initial_binaries'))
        /\ initial_galaxy' # None
        /\ Val(initial_galaxy').size = n_binaries_match'
        /\ Len(Val(initial_galaxy').arr) = n_binaries_match'
        /\ sampled']_vars

\* a sampling from candidates with a light binary among them
C23_Witness ==
    /\ op = "sample_initial_binaries"
    /\ \E b \in universe : MassOf(b) < M1Cutoff
    /\ n_binaries_match = 1
    /\ sampled

----------------------------------------------------------------------------
(* Properties of repeated and lazily triggered phases *)

\* the population is sampled and not yet evolved
Sampled == initial_binaries # None /\ initial_galaxy # None /\ bpp = None

\* C24: when perform_galactic_evolution is called on a Sampled population, so
\* that the stellar evolution runs inside the call, and the integration runs to
\* its end, every task holds the initial state, the birth time and the events
\* of one and the same binary, and there are n_binaries_match tasks (the count
\* after the quarantine of that stellar evolution).
C24_LazyTasksPaired ==
    [][(Sampled /\ op' = "perform_galactic_evolution" /\ Integrated') =>
        /\ Len(tasks') = n_binaries_match'
        /\ \A i \in 1..Len(tasks') :
              /\ tasks'[i].w0 = tasks'[i].events
              /\ tasks'[i].t1 = tasks'[i].events]_vars

\* the tables and counts a stellar evolution leaves
Evolved == <<n_binaries_match, initial_galaxy, bpp, bcm, initC, kick_info>>

\* C25: a second perform_stellar_evolution on an evolved population (the
\* solver returning as it did the first time) completes and leaves
\* n_binaries_match, the initial galaxy and the per-binary tables as the first
\* call left them.
C25_StellarReenterable ==
    [][(/\ op = "perform_stellar_evolution" /\ exc = "none"
        /\ op' = "perform_stellar_evolution" /\ exc' # "SolverError")
       => (exc' = "none" /\ UNCHANGED Evolved)]_vars

\* C26: whenever orbits is populated, its length equals n_binaries_match, the
\* size of the initial galaxy (and the length of its arrays) and the number of
\* distinct binaries in the evolution history.
C26_OrbitsMatchPopulation ==
    orbits # None =>
        /\ Len(Val(orbits)) = n_binaries_match
        /\ initial_galaxy # None
        /\ Len(Val(orbits)) = Val(initial_galaxy).size
        /\ Len(Val(orbits)) = Len(Val(initial_galaxy).arr)
        /\ bpp # None
        /\ Len(Val(orbits)) = Cardinality(BinariesOf(Val(bpp)))

\* a create_population step of a population that uses a pool and still holds
\* an open one: line 239 creates the new pool before it lets go of the old
CreatesPoolWhileOpen ==
    /\ pool = "open" /\ processes # 0
    /\ calls' = calls + 1 /\ op' = "create_population"

\* C27: a population never has more than one open worker pool: no call creates
\* a pool while the population holds an open one, and no open pool is left
\* without a reference, whatever the calls and whether or not they failed.
C27_AtMostOneOpenPool == [][~CreatesPoolWhileOpen /\ orphans' = 0]_vars

\* the population as a property read finds it: the record of the last call reset
AtRead(name) == Begin(name)

\* no lazy read of a table, of orbits or of a sampling total does anything
QuietReads ==
    /\ \A name \in {"bpp", "bcm", "initC", "kick_info"}, draw \in Draws,
          solver_raises \in BOOLEAN :
            TableProp(AtRead("table property"), name, draw, solver_raises)
                = AtRead("table property")
    /\ \A draw \in Draws, solver_raises \in BOOLEAN, ord \in Perms(MaxDraw) :
            OrbitsProp(AtRead("orbits"), draw, solver_raises, ord) = AtRead("orbits")
    /\ \A draw \in Draws :
            TotalsProp(AtRead("totals property"), draw) = AtRead("totals property")

\* the four tables and the trajectory array are the ones in the files
HoldsFileValues ==
    /\ bpp = Some(Val(Val(disk.h5).tables).bpp)
    /\ bcm = Some(Val(Val(disk.h5).tables).bcm)
    /\ initC = Some(Val(Val(disk.h5).tables).initC)
    /\ kick_info = Some(Val(Val(disk.h5).tables).kick_info)
    /\ orbits = disk.npy
    /\ orbits # None

\* C28: on the population a load returns, reading bpp, bcm, initC, kick_info,
\* orbits or a sampling total gives the value read from the files and runs no
\* sampling, stellar evolution or galactic evolution (no phase is recorded and
\* no field changes); the population holds no pool and its final_coords,
\* final_bpp, observables and classes caches are empty.
C28_LoadedReadsAreQuiet ==
    (op = "load" /\ exc = "none") =>
        /\ HoldsFileValues
        /\ sampled
        /\ QuietReads
        /\ pool = "None"
        /\ final_coords = None /\ final_bpp = None /\ observables = None
        /\ classes = None

\* a load has returned a population with at least one trajectory
C28_Witness ==
    /\ op = "load" /\ exc = "none" /\ origin = "loaded"
    /\ orbits # None /\ Len(Val(orbits)) > 0
    /\ bpp # None /\ Len(Val(bpp)) > 0

\* row i of the table is particle i: its formation mass (its present mass where
\* the snapshot has none), the first entry of its metals, its formation time
\* in Gyr, and its position integrated from the snapshot time to that time
RowIsParticle(row, snap, i) ==
    /\ row.mass = IF snap.has_massform THEN snap.particles[i].massform
                  ELSE snap.particles[i].mass
    /\ row.Z = snap.particles[i].metals[1]
    /\ row.t_form * MyrPerGyr = snap.particles[i].tform
    /\ row.xv.w0 = snap.particles[i].w
    /\ row.xv.t1 = snap.time
    /\ row.xv.t2 = snap.particles[i].tform

\* C29: rewind_to_formation returns a table with exactly one row per particle,
\* row i describing particle i; a call with processes > 1 returns what the
\* call with processes = 1 returns; and the pool the call created is not left
\* open, whether the call returned or raised.
C29_RewindOneRowPerParticle ==
    r_stage = "returned" =>
        /\ r_exc = "none"
        /\ r_df # None
        /\ Len(Val(r_df)) = Len(r_subsnap.particles)
        /\ \A i \in 1..Len(r_subsnap.particles) :
              RowIsParticle(Val(r_df)[i], r_subsnap, i)
        /\ r_df = RewindToFormationOp(r_subsnap, DefaultDt, 1).df
        /\ r_pool # "open"

====
